---- MODULE Spec2Model ----
(***************************************************************************)
(* Model of arg-processor: the ArgOpt declaration parser and the           *)
(* ArgProcessor registry and scanning pass.                                 *)
(*                                                                         *)
(* Strings are sequences of one-character strings, so that search,         *)
(* substring and startsWith are computed as the code computes them.        *)
(* JavaScript indices are 0-based; Search and Substring keep the 0-based   *)
(* convention, token positions in an argument vector are 1-based.          *)
(***************************************************************************)
EXTENDS Integers, Sequences, FiniteSets, TLC

VARIABLES opts, strict, argv, pre, lastOp, ret, err

vars == <<opts, strict, argv, pre, lastOp, ret, err>>

(***************************************************************************)
(* Bounds of the model.                                                    *)
(***************************************************************************)
\* largest number of entries the registry is let to grow to
MaxOpts == 2
\* largest number of declarations handed to the bulk constructor
MaxDecls == 2
\* largest number of tokens in the process argument vector
MaxArgs == 3
\* largest number of characters of a declaration handed to new ArgOpt
MaxDeclLen == 4

(***************************************************************************)
(* String primitives (String.prototype.search / substring / startsWith).   *)
(***************************************************************************)
Min(a, b) == IF a < b THEN a ELSE b

Max(a, b) == IF a > b THEN a ELSE b

\* str.search(c) for a one-character pattern: 0-based index of the first
\* occurrence, -1 when there is none
Search(str, c) ==
    LET found == {k \in 1..Len(str) : str[k] = c}
    IN  IF found = {} THEN -1
        ELSE (CHOOSE k \in found : \A m \in found : k <= m) - 1

\* str.substring(a, b): both ends clamped to 0..length and swapped if a > b
Substring(str, a, b) ==
    LET ca == Max(0, Min(a, Len(str)))
        cb == Max(0, Min(b, Len(str)))
    IN  SubSeq(str, Min(ca, cb) + 1, Max(ca, cb))

\* str.substring(a)
SubstringFrom(str, a) == Substring(str, a, Len(str))

StartsWith(str, p) == Len(str) >= Len(p) /\ SubSeq(str, 1, Len(p)) = p

\* the characters matched by /[\w\d]/ among those the model uses
WordChars == {"a", "e", "h", "i", "l", "n", "o", "p", "t", "u", "v", "X", "1", "_"}

\* a character test that accepts everything
IsWordChar_Any(c) == TRUE

IsWordChar(c) == c \in WordChars

(***************************************************************************)
(* ArgOpt                                                                   *)
(***************************************************************************)
NoErr == [kind |-> "none", why |-> "", at |-> 0]

SyntaxError(why) == [kind |-> "SyntaxError", why |-> why, at |-> 0]

ReferenceError(why, at) == [kind |-> "ReferenceError", why |-> why, at |-> at]

\* thrown by the engine when a property of undefined is read
TypeError(why) == [kind |-> "TypeError", why |-> why, at |-> 0]

\* the character loop of ArgOpt.parse over the short/long portion
RECURSIVE ParseLoop(_, _, _)
ParseLoop(str, k, acc) ==
    IF k > Len(str) \/ acc.err # NoErr THEN acc
    ELSE LET char == str[k] IN
         IF char = "/" THEN ParseLoop(str, k + 1, [acc EXCEPT !.split = TRUE])
         ELSE IF ~IsWordChar(char)
              THEN [acc EXCEPT !.err = SyntaxError("char")]
         ELSE IF ~acc.split
              THEN ParseLoop(str, k + 1, [acc EXCEPT !.short = @ \o <<char>>])
         ELSE ParseLoop(str, k + 1, [acc EXCEPT !.long = @ \o <<char>>])

parse(argOptStr) ==
    LET eq == Search(argOptStr, "=")
        capture == eq # -1
        placeholder == IF capture THEN SubstringFrom(argOptStr, eq + 1) ELSE <<>>
        str == IF capture THEN Substring(argOptStr, 0, eq) ELSE argOptStr
        acc == ParseLoop(str, 1, [short |-> <<>>, long |-> <<>>, split |-> FALSE, err |-> NoErr])
        res == [short |-> acc.short, long |-> acc.long, capture |-> capture,
                placeholder |-> placeholder, err |-> NoErr]
    IN  IF acc.err # NoErr THEN [res EXCEPT !.err = acc.err]
        ELSE IF ~acc.split THEN [res EXCEPT !.err = SyntaxError("separator")]
        ELSE IF Len(acc.long) = 0 THEN [res EXCEPT !.err = SyntaxError("long")]
        ELSE res

\* new ArgOpt(argOptStr, description), for a declaration parse accepts
ArgOpt(argOptStr, description) ==
    LET p == parse(argOptStr)
    IN  [short |-> p.short, long |-> p.long, capture |-> p.capture,
         placeholder |-> p.placeholder, description |-> description,
         captured |-> <<>>, proc |-> FALSE]

toString(o) ==
    o.short \o <<"/">> \o o.long \o (IF o.capture THEN <<"=">> ELSE <<>>) \o o.placeholder


(***************************************************************************)
(* The registry: ArgProcessor.opts, a JavaScript object used as a map from *)
(* long to ArgOpt.  It is kept as the sequence of its own properties in    *)
(* property order (insertion order: no key of the model is an array        *)
(* index), each a record [key, opt].                                       *)
(***************************************************************************)
HasKey(o, k) == \E j \in 1..Len(o) : o[j].key = k

IndexOfKey(o, k) == CHOOSE j \in 1..Len(o) : o[j].key = k

\* this.opts[k]
Get(o, k) == o[IndexOfKey(o, k)].opt

\* this.opts[k] = opt: an existing property keeps its place, a new one is last
Assign(o, k, opt) ==
    IF HasKey(o, k)
    THEN [o EXCEPT ![IndexOfKey(o, k)] = [key |-> k, opt |-> opt]]
    ELSE Append(o, [key |-> k, opt |-> opt])

\* Delete that removes the first property whatever the key
Delete_First(o, k) == IF o = <<>> THEN o ELSE Tail(o)

\* delete this.opts[k]
Delete(o, k) == SelectSeq(o, LAMBDA e : e.key # k)

WILDCARD == <<"*">>

\* dropOpt with the wildcard test inverted
dropOpt_Inverted(o, opt) == IF opt # WILDCARD THEN <<>> ELSE Delete(o, opt)

dropOpt(o, opt) == IF opt = WILDCARD THEN <<>> ELSE Delete(o, opt)

\* ShortCollision with the negation of the long test lost
ShortCollision_SameLong(opt, mopt) == opt.short = mopt.short /\ opt.long = mopt.long

\* the test of pushOpt's loop over Object.values(this.opts)
ShortCollision(opt, mopt) == opt.short = mopt.short /\ ~(opt.long = mopt.long)

\* pushOpt that drops the entry of opt.long before looking for a collision
pushOpt_DropsFirst(o, opt) ==
    IF \E j \in 1..Len(dropOpt(o, opt.long)) : ShortCollision(opt, dropOpt(o, opt.long)[j].opt)
    THEN [opts |-> dropOpt(o, opt.long), err |-> ReferenceError("short", 0)]
    ELSE [opts |-> Assign(dropOpt(o, opt.long), opt.long, opt), err |-> NoErr]

pushOpt(o, opt) ==
    IF \E j \in 1..Len(o) : ShortCollision(opt, o[j].opt)
    THEN [opts |-> o, err |-> ReferenceError("short", 0)]
    ELSE [opts |-> Assign(dropOpt(o, opt.long), opt.long, opt), err |-> NoErr]

\* pushOptStr: new ArgOpt(optStr, desc) throws what parse throws
pushOptStr(o, optStr, desc) ==
    IF parse(optStr).err # NoErr
    THEN [opts |-> o, err |-> parse(optStr).err]
    ELSE pushOpt(o, ArgOpt(optStr, desc))

\* the inner "matching" loop of the constructor for opts[iter]: the first
\* other position whose short or long is identical (0 when there is none)
ConflictWith(list, iter) ==
    LET bad == {m \in 1..Len(list) :
                   m # iter /\ (list[iter].short = list[m].short \/ list[iter].long = list[m].long)}
    IN  IF bad = {} THEN 0 ELSE CHOOSE m \in bad : \A n \in bad : m <= n

RECURSIVE ConstructorLoop(_, _, _)
ConstructorLoop(list, iter, o) ==
    IF iter > Len(list) THEN [opts |-> o, err |-> NoErr]
    ELSE LET m == ConflictWith(list, iter) IN
         IF m # 0
         THEN [opts |-> o,
               err |-> ReferenceError(IF list[iter].short = list[m].short THEN "short" ELSE "long", iter)]
         ELSE ConstructorLoop(list, iter + 1, Assign(o, list[iter].long, list[iter]))

\* new ArgProcessor(list)
Constructor(list) == ConstructorLoop(list, 1, <<>>)

\* ArgProcessor.new(record): decls is the record's entries [str, desc] in order;
\* the first declaration parse rejects ends the call before any registry exists
New(decls) ==
    LET bad == {k \in 1..Len(decls) : parse(decls[k].str).err # NoErr} IN
    IF bad # {}
    THEN [opts |-> <<>>, err |-> parse(decls[CHOOSE k \in bad : \A n \in bad : k <= n].str).err]
    ELSE Constructor([k \in 1..Len(decls) |-> ArgOpt(decls[k].str, decls[k].desc)])

\* resetOpt that leaves every descriptor as it is
resetOpt_Nothing(o) == o

\* resetOpt that clears proc only
resetOpt_ProcOnly(o) ==
    [j \in 1..Len(o) |-> [o[j] EXCEPT !.opt.proc = FALSE]]

resetOpt(o) ==
    [j \in 1..Len(o) |-> [o[j] EXCEPT !.opt.captured = <<>>, !.opt.proc = FALSE]]

\* proced(long): this.opts[long].proc; this.opts[long] is undefined for a key
\* that is not registered, and reading a property of undefined throws
proced(o, long) ==
    IF HasKey(o, long)
    THEN [ret |-> Get(o, long).proc, err |-> NoErr]
    ELSE [ret |-> <<>>, err |-> TypeError("undefined")]

\* value(long): this.opts[long].captured
value(o, long) ==
    IF HasKey(o, long)
    THEN [ret |-> Get(o, long).captured, err |-> NoErr]
    ELSE [ret |-> <<>>, err |-> TypeError("undefined")]

(***************************************************************************)
(* ArgProcessor.process                                                     *)
(***************************************************************************)
DASH == <<"-">>

DASHDASH == <<"-", "-">>

\* optKey: the text after "--", else after "-", else empty
OptKeyOf(arg) ==
    IF StartsWith(arg, DASHDASH) THEN SubstringFrom(arg, 2)
    ELSE IF StartsWith(arg, DASH) THEN SubstringFrom(arg, 1)
    ELSE <<>>

\* const key = optKey.substring(0, optKey.search("=")) || optKey
KeyOf(optKey) ==
    LET head == Substring(optKey, 0, Search(optKey, "="))
    IN  IF head # <<>> THEN head ELSE optKey

\* a match test that compares the key with both fields
KeyMatches_AnyField(long, key, argOpt) == key = argOpt.long \/ key = argOpt.short

\* the test of the loop over Object.entries(this.opts)
KeyMatches(long, key, argOpt) ==
    (long /\ key = argOpt.long) \/ (~long /\ key = argOpt.short)

\* the entry the loop stops at (break): the first one in property order, 0 if none
FirstMatch(o, long, key) ==
    LET hit == {j \in 1..Len(o) : KeyMatches(long, key, o[j].opt)}
    IN  IF hit = {} THEN 0 ELSE CHOOSE j \in hit : \A n \in hit : j <= n

\* InlineValue with the "=" left in: optKey.substring(valIdx)
InlineValue_WithEq(optKey, valIdx) == SubstringFrom(optKey, valIdx)

\* optKey.substring(valIdx + 1)
InlineValue(optKey, valIdx) == SubstringFrom(optKey, valIdx + 1)

\* TakeCaptured without its "continue": the value is also kept as positional
TakeCaptured_AlsoKept(st, arg) ==
    [st EXCEPT !.captureNext = FALSE,
               !.opts = Assign(st.opts, st.lastCapKey,
                               [Get(st.opts, st.lastCapKey) EXCEPT !.captured = arg]),
               !.lastCapKey = <<>>,
               !.filtered = Append(@, arg)]

\* the body of the loop for a token met while captureNext is set
TakeCaptured(st, arg) ==
    [st EXCEPT !.captureNext = FALSE,
               !.opts = Assign(st.opts, st.lastCapKey,
                               [Get(st.opts, st.lastCapKey) EXCEPT !.captured = arg]),
               !.lastCapKey = <<>>]

\* Matched that writes an inline value only into an empty captured
Matched_KeepsFirst(st, args, iter, optKey, j) ==
    LET keyOpt == st.opts[j].key
        argOpt == st.opts[j].opt
        st1 == [st EXCEPT !.opts[j].opt.proc = TRUE]
        valIdx == Search(optKey, "=")
        val == InlineValue(optKey, valIdx)
    IN  IF ~argOpt.capture THEN st1
        ELSE IF valIdx # -1
             THEN IF val = <<>>
                  THEN [st1 EXCEPT !.err = ReferenceError("value", iter)]
                  ELSE IF argOpt.captured # <<>> THEN st1
                  ELSE [st1 EXCEPT !.opts[j].opt.captured = val]
        ELSE IF iter + 1 > Len(args)
             THEN [st1 EXCEPT !.err = ReferenceError("value", iter)]
        ELSE [st1 EXCEPT !.captureNext = TRUE, !.lastCapKey = keyOpt]

\* Matched without the look at args[iter + 1]: a trailing option just waits
Matched_NoEndCheck(st, args, iter, optKey, j) ==
    LET keyOpt == st.opts[j].key
        argOpt == st.opts[j].opt
        st1 == [st EXCEPT !.opts[j].opt.proc = TRUE]
        valIdx == Search(optKey, "=")
        val == SubstringFrom(optKey, valIdx + 1)
    IN  IF ~argOpt.capture THEN st1
        ELSE IF valIdx # -1
             THEN IF val = <<>>
                  THEN [st1 EXCEPT !.err = ReferenceError("value", iter)]
                  ELSE [st1 EXCEPT !.opts[j].opt.captured = val]
        ELSE [st1 EXCEPT !.captureNext = TRUE, !.lastCapKey = keyOpt]

\* the body of "if (optKey)" for the matched entry j
Matched(st, args, iter, optKey, j) ==
    LET keyOpt == st.opts[j].key
        argOpt == st.opts[j].opt
        st1 == [st EXCEPT !.opts[j].opt.proc = TRUE]
        valIdx == Search(optKey, "=")
        val == InlineValue(optKey, valIdx)
    IN  IF ~argOpt.capture THEN st1
        ELSE IF valIdx # -1
             THEN IF val = <<>>
                  THEN [st1 EXCEPT !.err = ReferenceError("value", iter)]
                  ELSE [st1 EXCEPT !.opts[j].opt.captured = val]
        ELSE IF iter + 1 > Len(args)
             THEN [st1 EXCEPT !.err = ReferenceError("value", iter)]
        ELSE [st1 EXCEPT !.captureNext = TRUE, !.lastCapKey = keyOpt]

\* Unrecognized with the strict test lost: the token is always passed through
Unrecognized_NeverThrows(st, isStrict, iter, arg) ==
    [st EXCEPT !.filtered = Append(@, arg)]

\* what follows the matching: the strict throw, the lenient push
Unrecognized(st, isStrict, iter, arg) ==
    IF isStrict THEN [st EXCEPT !.err = ReferenceError("unrecognized", iter)]
    ELSE [st EXCEPT !.filtered = Append(@, arg)]

\* ProcessStep that looks a dash token of empty optKey up in the registry
ProcessStep_EmptyKeyMatches(st, isStrict, args, iter) ==
    LET arg == args[iter]
        optKey == OptKeyOf(arg)
        long == StartsWith(arg, DASHDASH)
        j == FirstMatch(st.opts, long, KeyOf(optKey))
    IN  IF st.captureNext THEN TakeCaptured(st, arg)
        ELSE IF j # 0 /\ (optKey # <<>> \/ StartsWith(arg, DASH))
             THEN Matched(st, args, iter, optKey, j)
        ELSE IF optKey = <<>> THEN [st EXCEPT !.filtered = Append(@, arg)]
        ELSE Unrecognized(st, isStrict, iter, arg)

\* ProcessStep that classifies the token even while captureNext is set
ProcessStep_NoCaptureNext(st, isStrict, args, iter) ==
    LET arg == args[iter]
        optKey == OptKeyOf(arg)
        long == StartsWith(arg, DASHDASH)
        j == FirstMatch(st.opts, long, KeyOf(optKey))
    IN  IF optKey = <<>> THEN [st EXCEPT !.filtered = Append(@, arg)]
        ELSE IF j # 0 THEN Matched(st, args, iter, optKey, j)
        ELSE Unrecognized(st, isStrict, iter, arg)

\* one iteration of "for (const [iter, arg] of args.entries())"
ProcessStep(st, isStrict, args, iter) ==
    LET arg == args[iter]
        optKey == OptKeyOf(arg)
        long == StartsWith(arg, DASHDASH)
        j == FirstMatch(st.opts, long, KeyOf(optKey))
    IN  IF st.captureNext THEN TakeCaptured(st, arg)
        ELSE IF optKey = <<>> THEN [st EXCEPT !.filtered = Append(@, arg)]
        ELSE IF j # 0 THEN Matched(st, args, iter, optKey, j)
        ELSE Unrecognized(st, isStrict, iter, arg)

RECURSIVE ProcessLoop(_, _, _, _)
ProcessLoop(st, isStrict, args, iter) ==
    IF iter > Len(args) \/ st.err # NoErr THEN st
    ELSE ProcessLoop(ProcessStep(st, isStrict, args, iter), isStrict, args, iter + 1)

\* process(args) on registry o: the registry it leaves, the sequence it
\* returns (filtered) and the error it throws, if any
process(o, isStrict, args) ==
    LET st == ProcessLoop([opts |-> resetOpt(o), filtered |-> <<>>, captureNext |-> FALSE,
                           lastCapKey |-> <<>>, err |-> NoErr], isStrict, args, 1)
    IN  [opts |-> st.opts, ret |-> IF st.err = NoErr THEN st.filtered ELSE <<>>, err |-> st.err]

(***************************************************************************)
(* The inputs the operations are tried on.                                  *)
(***************************************************************************)
\* declaration strings: "h/help", "h/help=X", "i/input=", "h/halt", "a/help",
\* "/all", "/vol" and three that parse rejects: "1help", "h/", "h$/help"
D_help == <<"h", "/", "h", "e", "l", "p">>

D_helpX == <<"h", "/", "h", "e", "l", "p", "=", "X">>

D_input == <<"i", "/", "i", "n", "p", "u", "t", "=">>

D_halt == <<"h", "/", "h", "a", "l", "t">>

D_ahelp == <<"a", "/", "h", "e", "l", "p">>

D_all == <<"/", "a", "l", "l">>

D_vol == <<"/", "v", "o", "l">>

D_noSep == <<"1", "h", "e", "l", "p">>

D_noLong == <<"h", "/">>

D_badChar == <<"h", "$", "/", "h", "e", "l", "p">>

DeclPool == {D_help, D_helpX, D_input, D_halt, D_ahelp, D_all, D_vol,
             D_noSep, D_noLong, D_badChar}

\* (declaration, description) pairs, as given to pushOptStr and ArgProcessor.new
DeclArgs == {[str |-> s, desc |-> ""] : s \in DeclPool}
            \cup {[str |-> D_help, desc |-> "Show help."]}

\* the ArgOpt objects given to pushOpt
OptPool == {ArgOpt(d.str, d.desc) : d \in {x \in DeclArgs : parse(x.str).err = NoErr}}

\* sequences over S of length at most n
SeqsUpTo(S, n) == UNION {[1..k -> S] : k \in 0..n}

\* tokens: "a", "-h", "--help", "-i", "--input", "-i=a", "--input=a", "-i=",
\* "--nope", "-"
T_a == <<"a">>

T_h == <<"-", "h">>

T_help == <<"-", "-", "h", "e", "l", "p">>

T_i == <<"-", "i">>

T_input == <<"-", "-", "i", "n", "p", "u", "t">>

T_iEqA == <<"-", "i", "=", "a">>

T_inputEqA == <<"-", "-", "i", "n", "p", "u", "t", "=", "a">>

T_iEq == <<"-", "i", "=">>

T_nope == <<"-", "-", "n", "o", "p", "e">>

T_dash == <<"-">>

Tokens == {T_a, T_h, T_help, T_i, T_input, T_iEqA, T_inputEqA, T_iEq, T_nope, T_dash}

\* the argument vectors a pass is run on
ArgSeqs == SeqsUpTo(Tokens, MaxArgs)

\* the argument vectors passed explicitly between registry operations
ArgPool == {<<T_a, T_help>>, <<T_a, T_i, T_a>>, <<T_iEqA, T_h>>, <<T_i>>, <<T_nope, T_a>>}

\* node:process.argv of the run whose registry is edited: ["a", "--input=a"]
DefaultArgv == <<T_a, T_inputEqA>>

(***************************************************************************)
(* State and operations.                                                    *)
(*   opts, strict  the fields of the ArgProcessor                          *)
(*   argv          node:process.argv, the default argument of process      *)
(*   lastOp        the last call made and its argument                     *)
(*   pre           opts as it was when that call was made                  *)
(*   ret, err      what that call returned (<<>> if nothing) and threw     *)
(***************************************************************************)
\* a constructor that threw leaves no ArgProcessor to call
Alive == ~(lastOp.op = "new" /\ err # NoErr)

\* const ap = ArgProcessor.new({...}): strict is initialised to true
Created(decls) ==
    /\ LET r == New(decls)
       IN  /\ opts = r.opts
           /\ err = r.err
    /\ strict = TRUE
    /\ pre = <<>>
    /\ lastOp = [op |-> "new", arg |-> decls]
    /\ ret = <<>>

Init ==
    /\ argv = DefaultArgv
    /\ \E decls \in SeqsUpTo(DeclArgs, MaxDecls) : Created(decls)

PushOpt(opt) ==
    /\ Alive
    /\ LET r == pushOpt(opts, opt)
       IN  /\ Len(r.opts) <= MaxOpts
           /\ opts' = r.opts
           /\ err' = r.err
    /\ pre' = opts
    /\ lastOp' = [op |-> "pushOpt", arg |-> opt]
    /\ ret' = <<>>
    /\ UNCHANGED <<strict, argv>>

PushOptStr(optStr, desc) ==
    /\ Alive
    /\ LET r == pushOptStr(opts, optStr, desc)
       IN  /\ Len(r.opts) <= MaxOpts
           /\ opts' = r.opts
           /\ err' = r.err
    /\ pre' = opts
    /\ lastOp' = [op |-> "pushOptStr", arg |-> [str |-> optStr, desc |-> desc]]
    /\ ret' = <<>>
    /\ UNCHANGED <<strict, argv>>

DropOpt(opt) ==
    /\ Alive
    /\ opts' = dropOpt(opts, opt)
    /\ err' = NoErr
    /\ pre' = opts
    /\ lastOp' = [op |-> "dropOpt", arg |-> opt]
    /\ ret' = <<>>
    /\ UNCHANGED <<strict, argv>>

\* ap.strict = b
SetStrict(b) ==
    /\ Alive
    /\ strict' = b
    /\ err' = NoErr
    /\ pre' = opts
    /\ lastOp' = [op |-> "strict", arg |-> b]
    /\ ret' = <<>>
    /\ UNCHANGED <<opts, argv>>

Process(args) ==
    /\ Alive
    /\ LET r == process(opts, strict, args)
       IN  /\ opts' = r.opts
           /\ ret' = r.ret
           /\ err' = r.err
    /\ pre' = opts
    /\ lastOp' = [op |-> "process", arg |-> args]
    /\ UNCHANGED <<strict, argv>>

\* ap.proced(long)
Proced(long) ==
    /\ Alive
    /\ LET r == proced(opts, long)
       IN  /\ ret' = r.ret
           /\ err' = r.err
    /\ pre' = opts
    /\ lastOp' = [op |-> "proced", arg |-> long]
    /\ UNCHANGED <<opts, strict, argv>>

\* ap.value(long)
Value(long) ==
    /\ Alive
    /\ LET r == value(opts, long)
       IN  /\ ret' = r.ret
           /\ err' = r.err
    /\ pre' = opts
    /\ lastOp' = [op |-> "value", arg |-> long]
    /\ UNCHANGED <<opts, strict, argv>>

\* ap.process(args)
ProcessArgs == \E args \in ArgPool : Process(args)

\* ap.process(): args defaults to argv
ProcessArgv == Process(argv)

PushOptAny == \E opt \in OptPool : PushOpt(opt)

PushOptStrAny == \E d \in DeclArgs : PushOptStr(d.str, d.desc)

\* the keys dropOpt is called with: every long of the pool, and "*"
DropKeys == {o.long : o \in OptPool} \cup {WILDCARD}

DropOptAny == \E k \in DropKeys : DropOpt(k)

SetStrictAny == \E b \in BOOLEAN : SetStrict(b)

\* the keys proced and value are asked about
QueryKeys == {ArgOpt(D_help, "").long, ArgOpt(D_input, "").long, ArgOpt(D_vol, "").long}

ProcedAny == \E k \in QueryKeys : Proced(k)

ValueAny == \E k \in QueryKeys : Value(k)

Next ==
    \/ PushOptAny
    \/ PushOptStrAny
    \/ DropOptAny
    \/ SetStrictAny
    \/ ProcessArgs
    \/ ProcessArgv
    \/ ProcedAny
    \/ ValueAny

Spec == Init /\ [][Next]_vars

(***************************************************************************)
(* ArgOpt on its own: a declaration string is handed to new ArgOpt, and    *)
(* the descriptor it yields is rendered by toString.                        *)
(***************************************************************************)
\* the characters declarations are written with: two word characters, the
\* separator, the capture mark and a character outside [A-Za-z0-9_]
DeclChars == {"h", "i", "/", "=", "$"}

DeclStrings == SeqsUpTo(DeclChars, MaxDeclLen)

InitParse ==
    /\ opts = <<>>
    /\ strict = TRUE
    /\ argv = <<>>
    /\ pre = <<>>
    /\ \E s \in DeclStrings : lastOp = [op |-> "input", arg |-> s]
    /\ ret = <<>>
    /\ err = NoErr

\* new ArgOpt(s): ret is the descriptor, or parse has thrown
NewArgOpt ==
    /\ lastOp.op = "input"
    /\ LET p == parse(lastOp.arg)
       IN  /\ err' = p.err
           /\ ret' = IF p.err = NoErr THEN ArgOpt(lastOp.arg, "") ELSE <<>>
    /\ lastOp' = [op |-> "ArgOpt", arg |-> lastOp.arg]
    /\ UNCHANGED <<opts, strict, argv, pre>>

\* argOpt.toString() on the descriptor just built, which is kept in pre
Render ==
    /\ lastOp.op = "ArgOpt"
    /\ err = NoErr
    /\ pre' = ret
    /\ ret' = toString(ret)
    /\ lastOp' = [op |-> "toString", arg |-> lastOp.arg]
    /\ UNCHANGED <<opts, strict, argv, err>>

NextParse ==
    \/ NewArgOpt
    \/ Render

SpecParse == InitParse /\ [][NextParse]_vars

(***************************************************************************)
(* A run of the program on one argument vector: the registry is built by   *)
(* ArgProcessor.new, strict is switched, and process() scans argv.          *)
(***************************************************************************)
\* the registries scanned: {h/help, i/input=} and {/all, i/input=}
ScanDecls == {
    <<[str |-> D_help, desc |-> ""], [str |-> D_input, desc |-> ""]>>,
    <<[str |-> D_all, desc |-> ""], [str |-> D_input, desc |-> ""]>> }

InitScan ==
    /\ argv \in ArgSeqs
    /\ \E decls \in ScanDecls : Created(decls)

NextScan ==
    \/ SetStrictAny
    \/ ProcessArgv

SpecScan == InitScan /\ [][NextScan]_vars

(***************************************************************************)
(* The same run on registries whose shorts and longs cross ("help/h" with  *)
(* "h/help") or whose short is empty, scanned with tokens that tell the    *)
(* short and the long lookup apart.                                         *)
(***************************************************************************)
\* "help/h"
D_helph == <<"h", "e", "l", "p", "/", "h">>
\* "h/help="
D_helpEq == <<"h", "/", "h", "e", "l", "p", "=">>
\* "--h"
T_hh == <<"-", "-", "h">>
\* "-help"
T_shelp == <<"-", "h", "e", "l", "p">>
\* "--all"
T_all == <<"-", "-", "a", "l", "l">>
\* "-=a"
T_eqA == <<"-", "=", "a">>

KeyTokens == {T_h, T_hh, T_help, T_shelp, T_dash, T_all, T_eqA}

KeyDecls == {
    <<[str |-> D_helph, desc |-> ""], [str |-> D_help, desc |-> ""]>>,
    <<[str |-> D_all, desc |-> ""], [str |-> D_helpEq, desc |-> ""]>> }

InitKeys ==
    /\ argv \in SeqsUpTo(KeyTokens, MaxArgs)
    /\ \E decls \in KeyDecls : Created(decls)

SpecKeys == InitKeys /\ [][NextScan]_vars

(***************************************************************************)
(* Vocabulary of the properties: what a token is to a registry, stated     *)
(* position by position instead of by a scan.                               *)
(***************************************************************************)
\* the pass the state records: process(Args) was the last call
Passed == lastOp.op = "process"

Args == lastOp.arg

\* number of leading dashes that make the prefix: 2, 1 or 0
Dashes(tok) ==
    IF Len(tok) >= 2 /\ tok[1] = "-" /\ tok[2] = "-" THEN 2
    ELSE IF Len(tok) >= 1 /\ tok[1] = "-" THEN 1
    ELSE 0

\* the least element of a non-empty set of positions, 0 for the empty set
First(P) == IF P = {} THEN 0 ELSE CHOOSE i \in P : \A n \in P : i <= n

Body(tok) == SubSeq(tok, Dashes(tok) + 1, Len(tok))

OptionShaped(tok) == Dashes(tok) > 0 /\ Len(Body(tok)) > 0

\* where the first "=" of the body stands, 0 if it has none
EqAt(tok) == LET b == Body(tok) IN First({k \in 1..Len(b) : b[k] = "="})

HasEq(tok) == EqAt(tok) # 0

\* the name a token asks for: the body up to its first "=" (the whole body
\* when nothing precedes the "=")
NameOf(tok) ==
    LET b == Body(tok)
        e == EqAt(tok)
    IN  IF e <= 1 THEN b ELSE SubSeq(b, 1, e - 1)

\* the text after the first "=" of the body
InlineOf(tok) ==
    LET b == Body(tok)
        e == EqAt(tok)
    IN  IF e = 0 THEN <<>> ELSE SubSeq(b, e + 1, Len(b))

\* token tok names the option d
Names(tok, d) ==
    /\ OptionShaped(tok)
    /\ \/ Dashes(tok) = 2 /\ NameOf(tok) = d.long
       \/ Dashes(tok) = 1 /\ NameOf(tok) = d.short

Known(o, tok) == \E j \in 1..Len(o) : Names(tok, o[j].opt)

\* tok names a capturing option and carries no value itself
WantsNext(o, tok) ==
    \E j \in 1..Len(o) : Names(tok, o[j].opt) /\ o[j].opt.capture /\ ~HasEq(tok)

\* the positions up to i that hold the value of the capturing option named
\* just before them: a value is never itself read as an option
RECURSIVE ConsumedUpTo(_, _, _)
ConsumedUpTo(o, args, i) ==
    IF i = 0 THEN {}
    ELSE LET c == ConsumedUpTo(o, args, i - 1)
         IN  IF i > 1 /\ (i - 1) \notin c /\ WantsNext(o, args[i - 1]) THEN c \cup {i} ELSE c

\* tok names a capturing option and the value it needs is missing at position i
Lacks(o, args, i) ==
    /\ \E j \in 1..Len(o) : Names(args[i], o[j].opt) /\ o[j].opt.capture
    /\ \/ HasEq(args[i]) /\ InlineOf(args[i]) = <<>>
       \/ ~HasEq(args[i]) /\ i = Len(args)

\* what each position of args is to the registry o:
\*   consumed  the value of the capturing option named just before it
\*   option    scanned, and names a descriptor of the registry
\*   unknown   scanned, option-shaped, and names no descriptor
\*   missing   an option position whose capturing option lacks its value
\*   plain     scanned and names no descriptor: what is returned as positional
Roles(o, args) ==
    LET consumed == ConsumedUpTo(o, args, Len(args))
        scanned == (1..Len(args)) \ consumed
        option == {i \in scanned : Known(o, args[i])}
    IN  [consumed |-> consumed,
         option |-> option,
         unknown |-> {i \in scanned \ option : OptionShaped(args[i])},
         missing |-> {i \in option : Lacks(o, args, i)},
         plain |-> scanned \ option]

\* the tokens of args at the positions of P, in order
Pick(args, P) ==
    LET idx == SelectSeq([i \in 1..Len(args) |-> i], LAMBDA i : i \in P)
    IN  [k \in 1..Len(idx) |-> args[idx[k]]]

\* how many positions of args, among those in P, hold tok
CountAt(args, P, tok) == Cardinality({i \in P : args[i] = tok})

\* the pass got as far as scanning position i
Reached(i) == err = NoErr \/ err.at >= i

(***************************************************************************)
(* C1: whenever process succeeds, the sequence it returns is exactly the   *)
(* input tokens that neither name a registered option nor are the value of *)
(* a capturing option, in their original order and unmodified.             *)
(***************************************************************************)
C1_PositionalPreserved ==
    (Passed /\ err = NoErr) => ret = Pick(Args, Roles(opts, Args).plain)

\* ["-i", "-h", "a"] with h/help and i/input=: "-h" is the value, "a" is returned
C1_Witness ==
    /\ Passed /\ err = NoErr
    /\ Args = <<T_i, T_h, T_a>>
    /\ HasKey(opts, <<"h", "e", "l", "p">>)
    /\ ret = <<T_a>>

(***************************************************************************)
(* C2: for a capturing option with short s and long L and a non-empty      *)
(* value v, the forms [-s, v], [-s=v], [--L, v] and [--L=v] at the same    *)
(* place of an otherwise identical argument vector give the same result.   *)
(***************************************************************************)
Forms(d, v) ==
    { <<DASH \o d.short, v>>,
      <<DASH \o d.short \o <<"=">> \o v>>,
      <<DASHDASH \o d.long, v>>,
      <<DASHDASH \o d.long \o <<"=">> \o v>> }

\* the forms of option d that start at position p of args, as [len, v]
FormsAt(args, p, d) ==
    (IF /\ p + 1 <= Len(args)
        /\ args[p] \in {DASH \o d.short, DASHDASH \o d.long}
        /\ args[p + 1] # <<>>
     THEN {[len |-> 2, v |-> args[p + 1]]} ELSE {})
    \cup
    (IF Names(args[p], d) /\ HasEq(args[p]) /\ InlineOf(args[p]) # <<>>
     THEN {[len |-> 1, v |-> InlineOf(args[p])]} ELSE {})

\* args with the len tokens from position p replaced by the tokens of f
Replace(args, p, len, f) ==
    SubSeq(args, 1, p - 1) \o f \o SubSeq(args, p + len, Len(args))

\* a pass over args2 ends as the recorded pass did
SameOutcome(args2) ==
    LET r == process(opts, strict, args2)
    IN  /\ r.opts = opts
        /\ r.ret = ret
        /\ r.err.kind = err.kind
        /\ r.err.why = err.why

\* the capturing options with a short form
ShortCapturing == {j \in 1..Len(opts) : opts[j].opt.capture /\ opts[j].opt.short # <<>>}

\* C2 as stated: wherever a form stands in a successful pass, the option is
\* hit, holds v, and each of the four forms gives this same result
C2_Original ==
    (Passed /\ err = NoErr) =>
        \A p \in 1..Len(Args) : \A j \in ShortCapturing :
            \A fm \in FormsAt(Args, p, opts[j].opt) :
                /\ opts[j].opt.proc
                /\ opts[j].opt.captured = fm.v
                /\ \A f \in Forms(opts[j].opt, fm.v) : SameOutcome(Replace(Args, p, fm.len, f))

\* C2 (amended): when the first token of the form is scanned as an option
\* (it is not the value of a capturing option before it and no failure came
\* before it), the four forms give the same result, the option is hit, and
\* it holds v unless a later token names the option again.
C2_FormsAgree ==
    Passed =>
        LET role == Roles(opts, Args) IN
        \A p \in (1..Len(Args)) \ role.consumed : \A j \in ShortCapturing :
            \A fm \in FormsAt(Args, p, opts[j].opt) :
                Reached(p) =>
                    /\ opts[j].opt.proc
                    /\ (\A q \in role.option : q >= p + fm.len => ~Names(Args[q], opts[j].opt))
                           => opts[j].opt.captured = fm.v
                    /\ \A f \in Forms(opts[j].opt, fm.v) :
                           SameOutcome(Replace(Args, p, fm.len, f))

\* ["-h", "-i", "a"]: the separated short form, scanned after another option
C2_Witness ==
    /\ Passed /\ err = NoErr
    /\ Args = <<T_h, T_i, T_a>>
    /\ \E j \in ShortCapturing : opts[j].opt.proc /\ opts[j].opt.captured = T_a
    /\ ret = <<>>

C4_MissingValue ==
    Passed =>
        LET role == Roles(opts, Args) IN
        /\ \A p \in role.missing :
               /\ err.kind = "ReferenceError"
               /\ err.at <= p
               /\ Reached(p) => err = ReferenceError("value", p)
        /\ err.why = "value" =>
               /\ err.kind = "ReferenceError"
               /\ err.at \in role.missing

\* ["a", "-i"]: the capturing option is the last token
C4_Witness ==
    /\ Passed
    /\ Args = <<T_a, T_i>>
    /\ err = ReferenceError("value", 2)

(***************************************************************************)
(* C5: the token after a capturing option that carries no inline value is  *)
(* stored whole as the captured value and is never classified: it sets no  *)
(* hit, raises no strict failure, is not returned as positional, and the   *)
(* pending capture ends with that one token.                                *)
(***************************************************************************)
C5_ValueNotClassified ==
    Passed =>
        LET role == Roles(opts, Args) IN
        \A q \in role.consumed :
            Reached(q - 1) =>
                \* stored whole, for the option named just before
                /\ \A j \in 1..Len(opts) :
                       ( /\ Names(Args[q - 1], opts[j].opt)
                         /\ \A r \in role.option : r > q => ~Names(Args[r], opts[j].opt) )
                       => opts[j].opt.captured = Args[q]
                \* sets no hit
                /\ \A j \in 1..Len(opts) :
                       ( /\ Names(Args[q], opts[j].opt)
                         /\ \A r \in role.option : Reached(r) => ~Names(Args[r], opts[j].opt) )
                       => ~opts[j].opt.proc
                \* raises no failure
                /\ err.at # q
                \* is not returned
                /\ err = NoErr =>
                       CountAt(ret, 1..Len(ret), Args[q]) = CountAt(Args, role.plain, Args[q])
                \* the token after it is scanned again
                /\ q + 1 \notin role.consumed
                /\ (strict /\ q + 1 \in role.unknown) => err = ReferenceError("unrecognized", q + 1)
                /\ (q + 1 \in role.option)
                       => \E j \in 1..Len(opts) : Names(Args[q + 1], opts[j].opt) /\ opts[j].opt.proc

\* strict, ["--input", "--nope", "-h"] with h/help: "--nope" is the value, "-h" is scanned
C5_Witness ==
    /\ Passed /\ strict /\ err = NoErr
    /\ Args = <<T_input, T_nope, T_h>>
    /\ \E j \in 1..Len(opts) : opts[j].opt.capture /\ opts[j].opt.captured = T_nope
    /\ \E j \in 1..Len(opts) : ~opts[j].opt.capture /\ opts[j].opt.proc
    /\ ret = <<>>

(***************************************************************************)
(* C6: every pass starts from reset transient state: what a successful     *)
(* process(t) leaves and returns depends only on the declared fields of    *)
(* the registry, on strict and on t, whatever passes came before; running  *)
(* the same pass again gives the same outcome.                              *)
(***************************************************************************)
\* the registry o with only its declared fields: nothing hit, nothing captured
Fresh(o) ==
    [j \in 1..Len(o) |->
        [key |-> o[j].key,
         opt |-> [short |-> o[j].opt.short, long |-> o[j].opt.long,
                  capture |-> o[j].opt.capture, placeholder |-> o[j].opt.placeholder,
                  description |-> o[j].opt.description,
                  captured |-> <<>>, proc |-> FALSE]]]

C6_PassStartsReset ==
    (Passed /\ err = NoErr) =>
        /\ opts = process(Fresh(pre), strict, Args).opts
        /\ ret = process(Fresh(pre), strict, Args).ret
        /\ process(Fresh(pre), strict, Args).err = NoErr
        /\ process(opts, strict, Args) = [opts |-> opts, ret |-> ret, err |-> err]

\* a successful pass made on a registry an earlier pass had left a capture in,
\* which this pass does not make again
C6_Witness ==
    /\ Passed /\ err = NoErr
    /\ \E j \in 1..Len(pre) :
           /\ pre[j].opt.proc /\ pre[j].opt.captured # <<>>
           /\ ~opts[j].opt.proc /\ opts[j].opt.captured = <<>>
    /\ \E j \in 1..Len(opts) : opts[j].opt.proc

(***************************************************************************)
(* C7: after any sequence of bulk construction, pushOpt, pushOptStr and    *)
(* dropOpt calls, failed ones included, no two descriptors of the registry *)
(* share a long, no two share a non-empty short, and each is stored under  *)
(* the key equal to its long.                                               *)
(***************************************************************************)
C7_RegistryUnique ==
    \A j \in 1..Len(opts) :
        /\ opts[j].key = opts[j].opt.long
        /\ \A k \in 1..Len(opts) :
               j # k =>
                   /\ opts[j].key # opts[k].key
                   /\ opts[j].opt.long # opts[k].opt.long
                   /\ (opts[j].opt.short # <<>> /\ opts[k].opt.short # <<>>)
                          => opts[j].opt.short # opts[k].opt.short

\* a registry of two descriptors that has just refused a colliding pushOpt
C7_Witness ==
    /\ lastOp.op = "pushOpt"
    /\ err.kind = "ReferenceError"
    /\ Len(opts) = 2
    /\ opts = pre

(***************************************************************************)
(* C8: bulk construction from a list of descriptors fails with a           *)
(* ReferenceError if and only if two distinct positions of the list share  *)
(* a long or share a short that is non-empty; on success each descriptor   *)
(* is keyed by its long.                                                    *)
(***************************************************************************)
\* the list of declarations of the last ArgProcessor.new are all well-formed
ListParsed == \A k \in 1..Len(lastOp.arg) : parse(lastOp.arg[k].str).err = NoErr

\* two positions of the list share a long, or a short that is not empty
ListClash ==
    \E m, n \in 1..Len(lastOp.arg) :
        /\ m # n
        /\ LET a == parse(lastOp.arg[m].str)
               b == parse(lastOp.arg[n].str)
           IN  \/ a.long = b.long
               \/ a.short = b.short /\ a.short # <<>>

C8_ConstructionRejectsClashes ==
    (lastOp.op = "new" /\ ListParsed) =>
        /\ err.kind = "ReferenceError" <=> ListClash
        /\ err = NoErr =>
               /\ Len(opts) = Len(lastOp.arg)
               /\ \A k \in 1..Len(lastOp.arg) :
                      /\ HasKey(opts, parse(lastOp.arg[k].str).long)
                      /\ Get(opts, parse(lastOp.arg[k].str).long)
                             = ArgOpt(lastOp.arg[k].str, lastOp.arg[k].desc)

(***************************************************************************)
(* C9: pushOpt(d) fails with a ReferenceError if and only if the registry  *)
(* holds an entry whose short is non-empty and equal to d.short and whose  *)
(* long differs from d.long; a descriptor with an empty short is never     *)
(* refused.                                                                 *)
(***************************************************************************)
C9_PushRejectsShortClash ==
    lastOp.op = "pushOpt" =>
        ( err.kind = "ReferenceError" <=>
            \E j \in 1..Len(pre) :
                /\ pre[j].opt.short # <<>>
                /\ pre[j].opt.short = lastOp.arg.short
                /\ pre[j].opt.long # lastOp.arg.long )

(***************************************************************************)
(* C10: a successful push replaces rather than duplicates: the registry    *)
(* then maps d.long to d, the former entry of that long is gone, the       *)
(* number of entries grows by one only if d.long was not registered, and   *)
(* every entry of another long is unchanged.                                *)
(***************************************************************************)
\* the descriptor of the last push
Pushed ==
    IF lastOp.op = "pushOpt" THEN lastOp.arg
    ELSE ArgOpt(lastOp.arg.str, lastOp.arg.desc)

C10_PushReplaces ==
    (lastOp.op \in {"pushOpt", "pushOptStr"} /\ err = NoErr) =>
        /\ Cardinality({j \in 1..Len(opts) : opts[j].key = Pushed.long}) = 1
        /\ Get(opts, Pushed.long) = Pushed
        /\ Len(opts) = Len(pre) + (IF HasKey(pre, Pushed.long) THEN 0 ELSE 1)
        /\ \A j \in 1..Len(pre) :
               pre[j].key # Pushed.long => \E k \in 1..Len(opts) : opts[k] = pre[j]
        /\ \A k \in 1..Len(opts) :
               opts[k].key # Pushed.long => \E j \in 1..Len(pre) : pre[j] = opts[k]

\* "h/help=X" pushed over "h/help" beside another entry that had been hit
C10_Witness ==
    /\ lastOp.op = "pushOpt" /\ err = NoErr
    /\ Len(pre) = 2 /\ Len(opts) = 2
    /\ HasKey(pre, lastOp.arg.long)
    /\ Get(pre, lastOp.arg.long).placeholder # lastOp.arg.placeholder
    /\ Get(opts, lastOp.arg.long).placeholder = <<"X">>
    /\ \E j \in 1..Len(pre) : pre[j].key # lastOp.arg.long /\ pre[j].opt.proc

(***************************************************************************)
(* C11: dropOpt(k) for a key other than "*" removes exactly the entry      *)
(* keyed k and leaves every other entry as it was; for a key that is not   *)
(* registered nothing changes and nothing is thrown; dropOpt("*") leaves   *)
(* the registry empty.                                                      *)
(***************************************************************************)
C11_DropRemovesOne ==
    lastOp.op = "dropOpt" =>
        /\ err = NoErr
        /\ lastOp.arg = WILDCARD => opts = <<>>
        /\ lastOp.arg # WILDCARD =>
               /\ ~HasKey(opts, lastOp.arg)
               /\ \A j \in 1..Len(pre) :
                      pre[j].key # lastOp.arg => \E k \in 1..Len(opts) : opts[k] = pre[j]
               /\ \A k \in 1..Len(opts) : \E j \in 1..Len(pre) : pre[j] = opts[k]
               /\ Len(opts) = Len(pre) - (IF HasKey(pre, lastOp.arg) THEN 1 ELSE 0)
               /\ ~HasKey(pre, lastOp.arg) => opts = pre

\* the second of two entries is dropped while the first, which had been hit, stays
C11_Witness ==
    /\ lastOp.op = "dropOpt" /\ lastOp.arg # WILDCARD
    /\ Len(pre) = 2 /\ Len(opts) = 1
    /\ pre[2].key = lastOp.arg
    /\ opts[1] = pre[1]
    /\ opts[1].opt.proc

(***************************************************************************)
(* C20: an insertion that fails changes nothing: when pushOpt throws a     *)
(* ReferenceError for a short collision, or pushOptStr throws a            *)
(* SyntaxError for a malformed declaration, the registry holds the same    *)
(* keys and descriptors, hit and captured state included, as before.       *)
(***************************************************************************)
C20_FailedPushChangesNothing ==
    (lastOp.op \in {"pushOpt", "pushOptStr"} /\ err # NoErr) =>
        /\ opts = pre
        /\ lastOp.op = "pushOpt" => err.kind = "ReferenceError"
        /\ (lastOp.op = "pushOptStr" /\ parse(lastOp.arg.str).err # NoErr)
               => err.kind = "SyntaxError"

\* "h/help" refused by the short of another entry while an entry keyed "help",
\* which holds a hit from an earlier pass, is registered
C20_Witness ==
    /\ lastOp.op = "pushOpt" /\ err.kind = "ReferenceError"
    /\ HasKey(opts, lastOp.arg.long)
    /\ Get(opts, lastOp.arg.long).proc
    /\ Get(opts, lastOp.arg.long).short # lastOp.arg.short

(***************************************************************************)
(* C12: proced(long) and value(long) return undefined, without throwing,   *)
(* for a key that is not registered; for a registered key they return the  *)
(* descriptor's hit flag and captured value.                                *)
(***************************************************************************)
C12_QueriesNeverThrow ==
    lastOp.op \in {"proced", "value"} =>
        /\ err = NoErr
        /\ ~HasKey(opts, lastOp.arg) => ret = "undefined"
        /\ (HasKey(opts, lastOp.arg) /\ lastOp.op = "proced")
               => ret = Get(opts, lastOp.arg).proc
        /\ (HasKey(opts, lastOp.arg) /\ lastOp.op = "value")
               => ret = Get(opts, lastOp.arg).captured

(***************************************************************************)
(* Declarations as the claims speak of them.                                *)
(***************************************************************************)
\* the text of a declaration before its first "="
DeclHead(s) ==
    LET e == {k \in 1..Len(s) : s[k] = "="}
    IN  IF e = {} THEN s ELSE SubSeq(s, 1, (CHOOSE k \in e : \A m \in e : k <= m) - 1)

\* the text of a declaration after its first "="
DeclTail(s) == SubSeq(s, Len(DeclHead(s)) + 2, Len(s))

SlashCount(h) == Cardinality({k \in 1..Len(h) : h[k] = "/"})

NoSeparator(h) == SlashCount(h) = 0

\* nothing but separators follows the first separator
EmptyLong(h) ==
    /\ SlashCount(h) > 0
    /\ \A k \in 1..Len(h) : (\E m \in 1..(k - 1) : h[m] = "/") => h[k] = "/"

BadChar(h) == \E k \in 1..Len(h) : h[k] # "/" /\ h[k] \notin WordChars

(***************************************************************************)
(* C13: new ArgOpt fails with a SyntaxError for every declaration whose    *)
(* text before the first "=" holds more than one "/".                       *)
(***************************************************************************)
C13_SecondSeparatorRejected ==
    (lastOp.op = "ArgOpt" /\ SlashCount(DeclHead(lastOp.arg)) > 1)
        => err.kind = "SyntaxError"

(***************************************************************************)
(* C14: new ArgOpt fails with a SyntaxError when the text before the first *)
(* "=" has no "/", has nothing after the separator, or holds a character   *)
(* other than the separator outside [A-Za-z0-9_]; the placeholder after    *)
(* the first "=" never makes it fail.                                       *)
(***************************************************************************)
C14_ParseRejects ==
    lastOp.op = "ArgOpt" =>
        LET h == DeclHead(lastOp.arg)
        IN  /\ (NoSeparator(h) \/ EmptyLong(h) \/ BadChar(h)) <=> err.kind = "SyntaxError"
            /\ err.kind \in {"SyntaxError", "none"}

\* "h/=..." is refused for its empty long
C14_Witness ==
    /\ lastOp.op = "ArgOpt" /\ err = SyntaxError("long")
    /\ DeclHead(lastOp.arg) = <<"h", "/">>
    /\ Len(DeclTail(lastOp.arg)) > 0

(***************************************************************************)
(* C15: for every declaration s that new ArgOpt accepts, toString of the   *)
(* descriptor is s itself, and parsing the rendered string gives the same  *)
(* short, long, capture and placeholder.                                    *)
(***************************************************************************)
C15_RoundTrip ==
    lastOp.op = "toString" =>
        /\ ret = lastOp.arg
        /\ parse(ret).err = NoErr
        /\ parse(ret).short = pre.short
        /\ parse(ret).long = pre.long
        /\ parse(ret).capture = pre.capture
        /\ parse(ret).placeholder = pre.placeholder

(***************************************************************************)
(* C16: with a descriptor of empty short registered, a token that is        *)
(* exactly "-" is matched to it during a pass: the descriptor is hit and    *)
(* the token is not returned as positional.                                 *)
(***************************************************************************)
\* the scanned positions of the pass that hold the bare "-"
BareDashes ==
    {q \in (1..Len(Args)) \ Roles(opts, Args).consumed : Args[q] = T_dash /\ Reached(q)}

EmptyShorts == {j \in 1..Len(opts) : opts[j].opt.short = <<>>}

C16_Original ==
    (Passed /\ BareDashes # {} /\ EmptyShorts # {}) =>
        /\ \A j \in EmptyShorts : opts[j].opt.proc
        /\ err = NoErr => \A k \in 1..Len(ret) : ret[k] # T_dash

\* C16 as the code has it: a scanned "-" is never matched; it is returned as
\* positional, and a descriptor of empty short is hit only by a token that
\* names it by its long
C16_DashIsPositional ==
    (Passed /\ BareDashes # {} /\ EmptyShorts # {}) =>
        /\ \A j \in EmptyShorts :
               opts[j].opt.proc =>
                   \E q \in Roles(opts, Args).option :
                       /\ Reached(q)
                       /\ Dashes(Args[q]) = 2
                       /\ NameOf(Args[q]) = opts[j].opt.long
        /\ err = NoErr =>
               Cardinality({k \in 1..Len(ret) : ret[k] = T_dash}) = Cardinality(BareDashes)

\* "-" scanned with "/all" registered: "/all" is not hit and "-" is returned
C16_Witness ==
    /\ Passed /\ err = NoErr
    /\ BareDashes # {}
    /\ \E j \in EmptyShorts : ~opts[j].opt.proc
    /\ \E k \in 1..Len(ret) : ret[k] = T_dash

(***************************************************************************)
(* C17: short and long lookups are separate namespaces and each option     *)
(* token hits at most one descriptor: a single-dash token is matched only  *)
(* against shorts and a double-dash token only against longs, by the text  *)
(* between the dash prefix and the first "=".  With "help/h" and "h/help"  *)
(* registered, -h hits only "h/help" and --h hits only "help/h".           *)
(***************************************************************************)
\* the text between the dash prefix and the first "="
LookupKey(tok) ==
    LET b == Body(tok)
        e == EqAt(tok)
    IN  IF e = 0 THEN b ELSE SubSeq(b, 1, e - 1)

\* tok asks for d in the namespace its dash prefix selects
Hits(tok, d) ==
    /\ LookupKey(tok) # <<>>
    /\ \/ Dashes(tok) = 2 /\ LookupKey(tok) = d.long
       \/ Dashes(tok) = 1 /\ LookupKey(tok) = d.short

\* the same with the key taken as it stands, empty or not, for a token that
\* has text after its dash prefix
HitsAnyKey(tok, d) ==
    /\ OptionShaped(tok)
    /\ \/ Dashes(tok) = 2 /\ LookupKey(tok) = d.long
       \/ Dashes(tok) = 1 /\ LookupKey(tok) = d.short

C17_Original ==
    Passed =>
        LET scanned == {q \in (1..Len(Args)) \ Roles(opts, Args).consumed : Reached(q)}
        IN  /\ \A j \in 1..Len(opts) :
                   opts[j].opt.proc <=> \E q \in scanned : HitsAnyKey(Args[q], opts[j].opt)
            /\ \A q \in scanned :
                   Cardinality({j \in 1..Len(opts) : HitsAnyKey(Args[q], opts[j].opt)}) <= 1

\* C17 as the code has it: a token whose text before the first "=" is empty
\* ("-=a") is looked up by its whole text after the dashes, so it hits no
\* descriptor, not even one of empty short
C17_SeparateNamespaces ==
    Passed =>
        LET scanned == {q \in (1..Len(Args)) \ Roles(opts, Args).consumed : Reached(q)}
        IN  /\ \A j \in 1..Len(opts) :
                   opts[j].opt.proc <=> \E q \in scanned : Hits(Args[q], opts[j].opt)
            /\ \A q \in scanned :
                   Cardinality({j \in 1..Len(opts) : Hits(Args[q], opts[j].opt)}) <= 1

\* over "help/h" and "h/help", -h alone has hit only "h/help", or --h alone
\* only "help/h"
C17_Witness ==
    /\ Passed /\ err = NoErr
    /\ Len(opts) = 2
    /\ opts[1].opt.short = opts[2].opt.long
    /\ opts[1].opt.long = opts[2].opt.short
    /\ \/ Args = <<T_h>> /\ ~opts[1].opt.proc /\ opts[2].opt.proc
       \/ Args = <<T_hh>> /\ opts[1].opt.proc /\ ~opts[2].opt.proc

(***************************************************************************)
(* C18: a failing pass leaves no state of an earlier pass behind: after    *)
(* process fails at token i, every descriptor that no token at a position  *)
(* up to i names is not hit and has an empty captured, whatever earlier     *)
(* passes left, and no token after position i has affected a descriptor.    *)
(***************************************************************************)
C18_FailedPassLeavesNoStale ==
    (Passed /\ err # NoErr) =>
        /\ err.at \in 1..Len(Args)
        /\ \A j \in 1..Len(opts) :
               (~\E q \in Roles(opts, Args).option :
                     q <= err.at /\ Names(Args[q], opts[j].opt))
                   => (~opts[j].opt.proc /\ opts[j].opt.captured = <<>>)
        /\ opts = process(pre, strict, SubSeq(Args, 1, err.at)).opts

\* the pass failed before its last token, and a descriptor that an earlier
\* pass had hit, and that a token after the failure names, is clean again
C18_Witness ==
    /\ Passed /\ err # NoErr /\ err.at < Len(Args)
    /\ \E j \in 1..Len(opts) :
           /\ pre[j].opt.proc /\ pre[j].opt.captured # <<>>
           /\ ~opts[j].opt.proc /\ opts[j].opt.captured = <<>>
           /\ \E q \in (err.at + 1)..Len(Args) : Names(Args[q], opts[j].opt)

(***************************************************************************)
(* C19: after every successful pass over non-empty tokens, a descriptor    *)
(* that does not capture has an empty captured; a descriptor that is not   *)
(* hit has an empty captured; and a capturing descriptor that is hit has a *)
(* non-empty captured, the value supplied with the last token naming it.   *)
(***************************************************************************)
\* the positions where a scanned token names d
Occurrences(d) == {q \in Roles(opts, Args).option : Names(Args[q], d)}

Last(P) == CHOOSE q \in P : \A n \in P : n <= q

\* the value supplied with the option token at position q: what follows its
\* "=", or the next token
SuppliedAt(q) == IF HasEq(Args[q]) THEN InlineOf(Args[q]) ELSE Args[q + 1]

C19_CapturedAfterSuccess ==
    (Passed /\ err = NoErr /\ \A q \in 1..Len(Args) : Args[q] # <<>>) =>
        \A j \in 1..Len(opts) :
            LET d == opts[j].opt
            IN  /\ ~d.capture => d.captured = <<>>
                /\ ~d.proc => d.captured = <<>>
                /\ (d.capture /\ d.proc) =>
                       /\ d.captured # <<>>
                       /\ Occurrences(d) # {}
                       /\ d.captured = SuppliedAt(Last(Occurrences(d)))

\* a capturing option named twice with different values holds the later one
C19_Witness ==
    /\ Passed /\ err = NoErr
    /\ \E j \in 1..Len(opts) :
           /\ opts[j].opt.capture /\ opts[j].opt.proc
           /\ Cardinality(Occurrences(opts[j].opt)) = 2
           /\ \E q \in Occurrences(opts[j].opt) : SuppliedAt(q) # opts[j].opt.captured
           /\ opts[j].opt.captured = SuppliedAt(Last(Occurrences(opts[j].opt)))

====
